---- MODULE Spec2Model ----
(***************************************************************************)
(* Model of the JWT authentication middleware (package middleware,         *)
(* JWTAuthMiddleware) of complytime-collector-components.                  *)
(*                                                                         *)
(* Strings that the code splits or rewrites are kept as sequences of       *)
(* pieces, so that splitting and replacing are computed, not assumed:      *)
(*  - an Authorization header is the sequence of its maximal space-free    *)
(*    words, i.e. strings.Split(header, " "); the Go string "" is <<"">>,  *)
(*    "Bearer a b" is <<"Bearer","a","b">>, "Bearer  a" is                 *)
(*    <<"Bearer","","a">>.  The empty sequence << >> stands for a request  *)
(*    that carries no Authorization header at all;                         *)
(*  - a dial address is a sequence of atoms whose concatenation is the Go  *)
(*    string; no concatenation of two atoms other than the canonical name  *)
(*    itself contains the canonical name.                                  *)
(***************************************************************************)
EXTENDS Integers, Sequences, FiniteSets, TLC

VARIABLES
    phase,               \* "boot" before JWTAuthMiddleware ran, "serving" after
    config,              \* JWTAuthConfig passed to JWTAuthMiddleware
    environ,             \* process environment: KUBERNETES_SERVICE_IP (<< >> = unset)
    k8sConfig,           \* rest.Config used to build the client
    httpClient,          \* the *http.Client handed to go-oidc
    dnsBypassEnabled,    \* local dnsBypassEnabled
    kubernetesServiceIP, \* local kubernetesServiceIP
    provider,            \* << >> when oidc.NewProvider failed, else <<[issuer |-> ..]>>
    verifierConfig,      \* << >> or <<oidc.Config>> given to provider.Verifier
    handler,             \* which closure was returned: "none", "unavailable", "verifying"
    discoveries,         \* number of oidc.NewProvider calls made so far
    keyCache,            \* the Verifier's cached signing-key ids
    req,                 \* in-flight requests: slot -> gin.Context of the request
    conn,                \* << >> or <<the last connection the client's transport made>>
    tbConfig,            \* the truthbeam processor's Config
    validateCall         \* << >> or <<[input, err]>> of the Validate() call made

gwVars   == <<phase, config, environ, k8sConfig, httpClient, dnsBypassEnabled,
             kubernetesServiceIP, provider, verifierConfig, handler, discoveries>>
tbVars   == <<tbConfig, validateCall>>
vars     == <<gwVars, keyCache, req, conn, tbVars>>

----------------------------------------------------------------------------
(* Bounds *)

\* request slots of the model (the serial specification Spec uses slot 1 only)
MaxRequests == 2
\* most space-separated words an Authorization header holds
MaxParts == 3
\* most atoms in the host part of a dialed address
MaxHostAtoms == 2

----------------------------------------------------------------------------
(* The OIDC issuer, its keys and the tokens presented to the gateway *)

CanonicalName == "kubernetes.default.svc"

\* issuerURL := "https://kubernetes.default.svc"
issuerURL == <<"https://", CanonicalName>>

\* Host of the fallback rest.Config
FallbackHost == <<"https://", CanonicalName>>

\* Host of a rest.Config loaded by rest.InClusterConfig
\* ("https://" + net.JoinHostPort(KUBERNETES_SERVICE_HOST, KUBERNETES_SERVICE_PORT))
InClusterHost == <<"https://", "10.96.0.1", ":", "443">>

\* key ids in the Verifier's key set when it is built, and at the issuer's
\* key-set endpoint (what a refresh fetches)
InitialKeys == {"k1"}
RemoteKeys  == {"k1", "k2"}

\* time.Now() of the model, as a Unix time
Clock == [now |-> 100]

StringSub(s) == [kind |-> "string", val |-> s]
AbsentSub    == [kind |-> "absent", val |-> ""]
NumberSub    == [kind |-> "number", val |-> "42"]

\* a token every verification step accepts, for either audience
GoodJWT ==
    [kid |-> "k1", sigOK |-> TRUE, iss |-> issuerURL, aud |-> {"svcA", "svcB"},
     exp |-> 200, nbf |-> << >>, sub |-> StringSub("alice"), decodeOK |-> TRUE]

\* The compact serialisations the model presents, with the JWT each parses to.
JWTs ==
    [ tAlice      |-> GoodJWT,
      tAliceUpper |-> [GoodJWT EXCEPT !.sub = StringSub("Alice")],
      tAli        |-> [GoodJWT EXCEPT !.sub = StringSub("ali")],
      tAliceX     |-> [GoodJWT EXCEPT !.sub = StringSub("alice-admin")],
      tCarol      |-> [GoodJWT EXCEPT !.sub = StringSub("carol")],
      tBob        |-> [GoodJWT EXCEPT !.sub = StringSub("bob")],
      tEmptySub   |-> [GoodJWT EXCEPT !.sub = StringSub("")],
      tNoSub      |-> [GoodJWT EXCEPT !.sub = AbsentSub],
      tNumSub     |-> [GoodJWT EXCEPT !.sub = NumberSub],
      tExpired    |-> [GoodJWT EXCEPT !.exp = 50],
      tNotYet     |-> [GoodJWT EXCEPT !.nbf = <<150>>],
      tRotated    |-> [GoodJWT EXCEPT !.kid = "k2"],
      tUnknownKid |-> [GoodJWT EXCEPT !.kid = "k9"],
      tBadSig     |-> [GoodJWT EXCEPT !.sigOK = FALSE],
      tAudA       |-> [GoodJWT EXCEPT !.aud = {"svcA"}],
      tWrongAud   |-> [GoodJWT EXCEPT !.aud = {"other"}],
      tWrongIss   |-> [GoodJWT EXCEPT !.iss = <<"https://", CanonicalName, ".cluster.local">>],
      tNoDecode   |-> [GoodJWT EXCEPT !.decodeOK = FALSE] ]

TokenWords == DOMAIN JWTs

\* words an Authorization header is made of
SchemeWords == {"Bearer", "bearer", "Basic"}
Words       == {""} \cup SchemeWords \cup TokenWords \cup {"garbage"}

\* first words, and the words of the third and later positions
FirstWords == {""} \cup SchemeWords \cup {"tAlice"}
ExtraWords == {"", "tAlice"}

\* The Authorization headers requests carry; << >> is "no header".
Headers ==
    {<< >>} \cup
    UNION { { h \in [1..n -> Words] :
                /\ h[1] \in FirstWords
                /\ \A i \in 3..n : h[i] \in ExtraWords
                /\ (n >= 3 => h[2] \in ExtraWords \cup {"tBob"}) }
            : n \in 1..MaxParts }

----------------------------------------------------------------------------
(* go-oidc: provider.Verifier(cfg).Verify and IDToken.Claims *)

VerifyOK(claims) == [ok |-> TRUE, err |-> "", token |-> <<claims>>]
VerifyErr(e)     == [ok |-> FALSE, err |-> e, token |-> << >>]

\* keys known after the lookup of kid: a miss refreshes the key set once
KeysAfterLookup(keys, kid) == IF kid \in keys THEN keys ELSE RemoteKeys

\* Verify(ctx, rawToken) of a verifier built from cfg on a provider whose
\* discovered issuer is iss, with the key ids keys cached.  raw is the token
\* string as a sequence of space-free words.
Verify(cfg, iss, keys, raw) ==
    IF Len(raw) # 1 \/ raw[1] \notin TokenWords
    THEN VerifyErr("malformed jwt")
    ELSE LET t == JWTs[raw[1]] IN
         IF ~cfg.InsecureSkipSignatureCheck /\ t.kid \notin KeysAfterLookup(keys, t.kid)
         THEN VerifyErr("failed to verify signature: key not found")
         ELSE IF ~cfg.InsecureSkipSignatureCheck /\ ~t.sigOK
         THEN VerifyErr("failed to verify signature")
         ELSE IF ~cfg.SkipExpiryCheck /\ ~(Clock.now < t.exp)
         THEN VerifyErr("token is expired")
         ELSE IF ~cfg.SkipExpiryCheck /\ t.nbf # << >> /\ ~(Clock.now >= t.nbf[1])
         THEN VerifyErr("token is not valid yet")
         ELSE IF ~cfg.SkipClientIDCheck /\ cfg.ClientID \notin t.aud
         THEN VerifyErr("expected audience not in token")
         ELSE IF ~cfg.SkipIssuerCheck /\ t.iss # iss
         THEN VerifyErr("id token issued by a different provider")
         ELSE VerifyOK(t)

\* the key cache after Verify(raw)
KeysAfterVerify(cfg, keys, raw) ==
    IF Len(raw) = 1 /\ raw[1] \in TokenWords /\ ~cfg.InsecureSkipSignatureCheck
    THEN KeysAfterLookup(keys, JWTs[raw[1]].kid)
    ELSE keys

\* idToken.Claims(&claims): the decoded jwt.MapClaims, or an error
DecodeClaims(t) ==
    IF t.decodeOK
    THEN [ok |-> TRUE,
          claims |-> <<[sub |-> t.sub, aud |-> t.aud, iss |-> t.iss,
                        exp |-> t.exp, nbf |-> t.nbf]>>]
    ELSE [ok |-> FALSE, claims |-> << >>]

----------------------------------------------------------------------------
(* truthbeam: Config.Validate *)

\* client.DefaultCacheTTL, the constant Validate reads
DefaultCacheTTL == 0

\* client.DefaultMaxCacheSizeMB
DefaultMaxCacheSizeMB == 512

\* go-cache's NoExpiration (time.Duration(-1))
NoExpiration == 0 - 1

\* consts.DefaultCacheTTL, the constant the tests compare with
ConstsDefaultCacheTTL == NoExpiration

\* error messages, as the phrases they are made of; nil is << >>
NilError          == << >>
ErrEndpoint       == <<"endpoint ", "must be specified">>
ErrMaxCacheSizeMB == <<"max_cache_size_mb ", "must be non-negative">>

\* a Config before Validate: ClientConfig.Endpoint, CacheTTL (in seconds),
\* MaxCacheSizeMB
EndpointInputs == {"", "http://example.com", "https://api.example.com:8080",
                   "http://localhost:8081/v1"}
CacheTTLInputs == {0, NoExpiration, 60, 300, 3600, 604800}
MaxCacheSizeMBInputs == {0 - 1, 0, 1, 512}

ConfigInputs ==
    [Endpoint : EndpointInputs, CacheTTL : CacheTTLInputs,
     MaxCacheSizeMB : MaxCacheSizeMBInputs]

ZeroConfig == [Endpoint |-> "", CacheTTL |-> 0, MaxCacheSizeMB |-> 0]

\* variant: the defaults are applied before the endpoint is checked
ValidateNormalizeFirst(c) ==
    LET c1 == IF c.CacheTTL = 0
              THEN [c EXCEPT !.CacheTTL = DefaultCacheTTL] ELSE c
        c2 == IF c1.MaxCacheSizeMB = 0
              THEN [c1 EXCEPT !.MaxCacheSizeMB = DefaultMaxCacheSizeMB] ELSE c1
    IN  IF c2.Endpoint = ""
        THEN [cfg |-> c2, err |-> ErrEndpoint]
        ELSE IF c2.MaxCacheSizeMB < 0
        THEN [cfg |-> c2, err |-> ErrMaxCacheSizeMB]
        ELSE [cfg |-> c2, err |-> NilError]

\* (cfg *Config) Validate(): the config it leaves and the error it returns
Validate(c) ==
    IF c.Endpoint = ""
    THEN [cfg |-> c, err |-> ErrEndpoint]
    ELSE LET c1 == IF c.CacheTTL = 0
                   THEN [c EXCEPT !.CacheTTL = DefaultCacheTTL] ELSE c
             c2 == IF c1.MaxCacheSizeMB = 0
                   THEN [c1 EXCEPT !.MaxCacheSizeMB = DefaultMaxCacheSizeMB] ELSE c1
         IN  IF c2.MaxCacheSizeMB < 0
             THEN [cfg |-> c2, err |-> ErrMaxCacheSizeMB]
             ELSE [cfg |-> c2, err |-> NilError]

----------------------------------------------------------------------------
(* Construction: JWTAuthMiddleware(config) up to the returned closure *)

StatusUnauthorized       == 401
StatusServiceUnavailable == 503

\* os.Getenv: the value, "" when the variable is unset
Getenv(e) == IF e = << >> THEN "" ELSE e[1]

\* what rest.HTTPClientFor can hand back: an error, or a client whose
\* Transport is a *http.Transport, another RoundTripper (client-go's
\* wrappers), or nil (http.DefaultClient)
TransportKinds     == {"*http.Transport", "RoundTripper", "nil"}
HTTPClientOutcomes == {"error"} \cup TransportKinds

HTTPClientOf(outcome) ==
    IF outcome = "error"
    THEN [from |-> "http.DefaultClient", Transport |-> "nil", DialContext |-> "default"]
    ELSE [from |-> "rest.HTTPClientFor", Transport |-> outcome, DialContext |-> "default"]

\* the if dnsBypassEnabled { ... } block on the client
ApplyBypass(client, bypass) ==
    IF bypass /\ client.Transport = "*http.Transport"
    THEN [client EXCEPT !.DialContext = "bypass"]
    ELSE client

\* variant: the bypass also switches the audience check off
VerifierConfigForLax(cfg, bypass) ==
    [ClientID                   |-> cfg.ExpectedAudience,
     SkipIssuerCheck            |-> bypass,
     SkipClientIDCheck          |-> bypass,
     SkipExpiryCheck            |-> FALSE,
     InsecureSkipSignatureCheck |-> FALSE]

\* variant: the expiry check is switched off
VerifierConfigSkipExpiry(cfg, bypass) ==
    [ClientID                   |-> cfg.ExpectedAudience,
     SkipIssuerCheck            |-> bypass,
     SkipClientIDCheck          |-> FALSE,
     SkipExpiryCheck            |-> TRUE,
     InsecureSkipSignatureCheck |-> FALSE]

\* verifierConfig as handed to provider.Verifier
VerifierConfigFor(cfg, bypass) ==
    [ClientID                   |-> cfg.ExpectedAudience,
     SkipIssuerCheck            |-> bypass,
     SkipClientIDCheck          |-> FALSE,
     SkipExpiryCheck            |-> FALSE,
     InsecureSkipSignatureCheck |-> FALSE]

\* the gin.Context of a request, as far as the middleware reads or writes it
IdleRequest ==
    [pc |-> "Idle", header |-> << >>, status |-> 0, error |-> "", detail |-> "",
     aborted |-> FALSE, rawToken |-> << >>, verifyCalls |-> << >>,
     idToken |-> << >>, decodeCalled |-> FALSE, claims |-> << >>,
     subjectCalls |-> << >>, keys |-> << >>, nextCalled |-> FALSE]

NewRequest(h) == [IdleRequest EXCEPT !.pc = "Start", !.header = h]

Slots == 1..MaxRequests

AudienceChoices        == {"svcA", "svcB"}
AllowedSubjectsChoices == {<< >>, <<"alice">>, <<"carol", "alice">>}
EnvironChoices         == {<< >>, <<"">>, <<"10.96.0.1">>}

Init ==
    /\ phase = "boot"
    /\ config \in [ExpectedAudience : AudienceChoices,
                   AllowedSubjects  : AllowedSubjectsChoices]
    /\ environ \in EnvironChoices
    /\ k8sConfig = [Host |-> << >>]
    /\ httpClient = HTTPClientOf("error")
    /\ dnsBypassEnabled = FALSE
    /\ kubernetesServiceIP = ""
    /\ provider = << >>
    /\ verifierConfig = << >>
    /\ handler = "none"
    /\ discoveries = 0
    /\ keyCache = {}
    /\ req = [r \in Slots |-> IdleRequest]
    /\ conn = << >>
    /\ tbConfig = ZeroConfig
    /\ validateCall = << >>

\* variant: a failure of rest.InClusterConfig makes the gateway unavailable
\* without discovery
ConstructFatal ==
    /\ phase = "boot"
    /\ \E inClusterErr \in BOOLEAN, clientOutcome \in HTTPClientOutcomes,
          discoveryErr \in BOOLEAN :
         LET ip     == Getenv(environ)
             bypass == ip # ""
         IN
         /\ k8sConfig' = IF inClusterErr THEN [Host |-> FallbackHost]
                                          ELSE [Host |-> InClusterHost]
         /\ kubernetesServiceIP' = ip
         /\ dnsBypassEnabled' = bypass
         /\ httpClient' = ApplyBypass(HTTPClientOf(clientOutcome), bypass)
         /\ discoveries' = IF inClusterErr THEN discoveries ELSE discoveries + 1
         /\ IF discoveryErr \/ inClusterErr
            THEN /\ provider' = << >>
                 /\ verifierConfig' = << >>
                 /\ handler' = "unavailable"
                 /\ keyCache' = keyCache
            ELSE /\ provider' = <<[issuer |-> issuerURL]>>
                 /\ verifierConfig' = <<VerifierConfigFor(config, bypass)>>
                 /\ handler' = "verifying"
                 /\ keyCache' = InitialKeys
    /\ phase' = "serving"
    /\ UNCHANGED <<config, environ, req, conn, tbVars>>

\* JWTAuthMiddleware(config): inClusterErr, clientOutcome and discoveryErr are
\* what rest.InClusterConfig, rest.HTTPClientFor and oidc.NewProvider return.
Construct ==
    /\ phase = "boot"
    /\ \E inClusterErr \in BOOLEAN, clientOutcome \in HTTPClientOutcomes,
          discoveryErr \in BOOLEAN :
         LET ip     == Getenv(environ)
             bypass == ip # ""
         IN
         /\ k8sConfig' = IF inClusterErr THEN [Host |-> FallbackHost]
                                          ELSE [Host |-> InClusterHost]
         /\ kubernetesServiceIP' = ip
         /\ dnsBypassEnabled' = bypass
         /\ httpClient' = ApplyBypass(HTTPClientOf(clientOutcome), bypass)
         /\ discoveries' = discoveries + 1
         /\ IF discoveryErr
            THEN /\ provider' = << >>
                 /\ verifierConfig' = << >>
                 /\ handler' = "unavailable"
                 /\ keyCache' = keyCache
            ELSE /\ provider' = <<[issuer |-> issuerURL]>>
                 /\ verifierConfig' = <<VerifierConfigFor(config, bypass)>>
                 /\ handler' = "verifying"
                 /\ keyCache' = InitialKeys
    /\ phase' = "serving"
    /\ UNCHANGED <<config, environ, req, conn, tbVars>>

----------------------------------------------------------------------------
(* The returned closures: the per-request pipeline *)

EmptyString == <<"">>

\* c.GetHeader("Authorization"): "" when the request has no such header
GetHeader(h) == IF h = << >> THEN EmptyString ELSE h

\* variant: strings.Split, every space separates
SplitAll(s) == [i \in 1..Len(s) |-> <<s[i]>>]

\* strings.SplitN(s, " ", 2): the text before the first space and the whole
\* rest, or s alone when it has no space
SplitN2(s) == IF Len(s) <= 1 THEN <<s>> ELSE << <<s[1]>>, Tail(s) >>

\* variant: the scheme keyword is compared case-insensitively
SchemeOKAnyCase(parts) == Len(parts) = 2 /\ parts[1] \in {<<"Bearer">>, <<"bearer">>}

\* len(parts) != 2 || parts[0] != "Bearer", negated
SchemeOK(parts) == Len(parts) = 2 /\ parts[1] = <<"Bearer">>

\* variant: every subject is allowed
validateSubjectAllowAll(subject, allowedSubjects) == TRUE

\* strings.ToLower on the subjects of the model
ToLower(s) == IF s = "Alice" THEN "alice" ELSE s

\* variant: subjects are compared case-insensitively
validateSubjectFold(subject, allowedSubjects) ==
    \E i \in 1..Len(allowedSubjects) : ToLower(subject) = ToLower(allowedSubjects[i])

\* validateSubject(subject, allowedSubjects) == nil
validateSubject(subject, allowedSubjects) ==
    \E i \in 1..Len(allowedSubjects) : subject = allowedSubjects[i]

\* variant: the type assertion's ok is ignored
SubIsStringLoose(claims) == TRUE

\* subject, ok := claims["sub"].(string)
SubIsString(claims) == claims.sub.kind = "string"

\* variant: the abort of the header check is not followed by return
AbortNoReturn(c, code, err, detail) ==
    [c EXCEPT !.aborted = TRUE, !.status = code, !.error = err, !.detail = detail,
              !.pc = IF c.pc = "Start" THEN "HeaderPresent" ELSE "Rejected"]

\* c.AbortWithStatusJSON(code, gin.H{"error": ...}) followed by return
AbortWithStatusJSON(c, code, err, detail) ==
    [c EXCEPT !.aborted = TRUE, !.status = code, !.error = err,
              !.detail = detail, !.pc = "Rejected"]

\* variant: the always-failing closure answers 401
UnavailableBodyAs401(c) ==
    AbortWithStatusJSON(c, StatusUnauthorized,
                        "JWT authentication not available", "")

\* the closure returned when oidc.NewProvider failed
UnavailableBody(c) ==
    AbortWithStatusJSON(c, StatusServiceUnavailable,
                        "JWT authentication not available", "")

\* variant: the empty header is not checked for
HeaderBodyNoCheck(c) == [c EXCEPT !.pc = "HeaderPresent"]

\* authHeader == "" check
HeaderBody(c) ==
    IF GetHeader(c.header) = EmptyString
    THEN AbortWithStatusJSON(c, StatusUnauthorized, "missing authorization header", "")
    ELSE [c EXCEPT !.pc = "HeaderPresent"]

\* Bearer prefix check; rawToken := parts[1]
SchemeBody(c) ==
    LET parts == SplitN2(GetHeader(c.header)) IN
    IF ~SchemeOK(parts)
    THEN AbortWithStatusJSON(c, StatusUnauthorized,
                             "invalid authorization header format", "")
    ELSE [c EXCEPT !.rawToken = parts[2], !.pc = "SchemeValid"]

\* idToken, err := verifier.Verify(ctx, rawToken)
VerifyBody(c, cfg, iss, keys) ==
    LET res    == Verify(cfg, iss, keys, c.rawToken)
        called == [c EXCEPT !.verifyCalls = Append(@, c.rawToken)]
    IN  IF ~res.ok
        THEN AbortWithStatusJSON(called, StatusUnauthorized, "invalid token", res.err)
        ELSE [called EXCEPT !.idToken = res.token, !.pc = "TokenVerified"]

\* idToken.Claims(&claims)
ClaimsBody(c) ==
    LET res    == DecodeClaims(c.idToken[1])
        called == [c EXCEPT !.decodeCalled = TRUE]
    IN  IF ~res.ok
        THEN AbortWithStatusJSON(called, StatusUnauthorized,
                                 "failed to extract token claims", "")
        ELSE [called EXCEPT !.claims = res.claims, !.pc = "ClaimsExtracted"]

\* variant: the sub type assertion runs even when AllowedSubjects is empty
SubjectBodyAlways(c, allowed) ==
    IF ~SubIsString(c.claims[1])
    THEN AbortWithStatusJSON(c, StatusUnauthorized, "subject claim missing", "")
    ELSE IF Len(allowed) > 0 /\ ~validateSubject(c.claims[1].sub.val, allowed)
    THEN AbortWithStatusJSON([c EXCEPT !.subjectCalls = Append(@, c.claims[1].sub.val)],
                             StatusUnauthorized, "subject validation failed",
                             c.claims[1].sub.val)
    ELSE [c EXCEPT !.pc = "SubjectChecked"]

\* if len(config.AllowedSubjects) > 0 { ... }
SubjectBody(c, allowed) ==
    IF Len(allowed) > 0
    THEN IF ~SubIsString(c.claims[1])
         THEN AbortWithStatusJSON(c, StatusUnauthorized, "subject claim missing", "")
         ELSE LET subject == c.claims[1].sub.val
                  called  == [c EXCEPT !.subjectCalls = Append(@, subject)]
              IN  IF ~validateSubject(subject, allowed)
                  THEN AbortWithStatusJSON(called, StatusUnauthorized,
                                           "subject validation failed", subject)
                  ELSE [called EXCEPT !.pc = "SubjectChecked"]
    ELSE [c EXCEPT !.pc = "SubjectChecked"]

\* variant: claims is a variable shared by all requests (here the one the
\* request of slot 1 last wrote)
AttachBodyShared(c) ==
    [c EXCEPT !.keys = req[1].claims, !.nextCalled = TRUE, !.pc = "Authenticated"]

\* c.Set("jwt_claims", claims); c.Next()
AttachBody(c) ==
    [c EXCEPT !.keys = c.claims, !.nextCalled = TRUE, !.pc = "Authenticated"]

\* a request carrying header h reaches the middleware in slot r
Arrive(r, h) ==
    /\ phase = "serving"
    /\ req[r].pc = "Idle"
    /\ req' = [req EXCEPT ![r] = NewRequest(h)]
    /\ UNCHANGED <<gwVars, keyCache, conn, tbVars>>

\* variant: the always-failing closure tries discovery again on each request
UnavailableRetry(r) ==
    /\ handler = "unavailable"
    /\ req[r].pc = "Start"
    /\ discoveries' = discoveries + 1
    /\ req' = [req EXCEPT ![r] = UnavailableBody(@)]
    /\ UNCHANGED <<phase, config, environ, k8sConfig, httpClient, dnsBypassEnabled,
                   kubernetesServiceIP, provider, verifierConfig, handler,
                   keyCache, conn, tbVars>>

Unavailable(r) ==
    /\ handler = "unavailable"
    /\ req[r].pc = "Start"
    /\ req' = [req EXCEPT ![r] = UnavailableBody(@)]
    /\ UNCHANGED <<gwVars, keyCache, conn, tbVars>>

CheckHeader(r) ==
    /\ handler = "verifying"
    /\ req[r].pc = "Start"
    /\ req' = [req EXCEPT ![r] = HeaderBody(@)]
    /\ UNCHANGED <<gwVars, keyCache, conn, tbVars>>

CheckScheme(r) ==
    /\ handler = "verifying"
    /\ req[r].pc = "HeaderPresent"
    /\ req' = [req EXCEPT ![r] = SchemeBody(@)]
    /\ UNCHANGED <<gwVars, keyCache, conn, tbVars>>

VerifyToken(r) ==
    /\ handler = "verifying"
    /\ req[r].pc = "SchemeValid"
    /\ req' = [req EXCEPT ![r] =
                 VerifyBody(@, verifierConfig[1], provider[1].issuer, keyCache)]
    /\ keyCache' = KeysAfterVerify(verifierConfig[1], keyCache, req[r].rawToken)
    /\ UNCHANGED <<gwVars, conn, tbVars>>

ExtractClaims(r) ==
    /\ handler = "verifying"
    /\ req[r].pc = "TokenVerified"
    /\ req' = [req EXCEPT ![r] = ClaimsBody(@)]
    /\ UNCHANGED <<gwVars, keyCache, conn, tbVars>>

CheckSubject(r) ==
    /\ handler = "verifying"
    /\ req[r].pc = "ClaimsExtracted"
    /\ req' = [req EXCEPT ![r] = SubjectBody(@, config.AllowedSubjects)]
    /\ UNCHANGED <<gwVars, keyCache, conn, tbVars>>

Attach(r) ==
    /\ handler = "verifying"
    /\ req[r].pc = "SubjectChecked"
    /\ req' = [req EXCEPT ![r] = AttachBody(@)]
    /\ UNCHANGED <<gwVars, keyCache, conn, tbVars>>

\* the response is written and the request's context is released
Complete(r) ==
    /\ req[r].pc \in {"Authenticated", "Rejected"}
    /\ req' = [req EXCEPT ![r] = IdleRequest]
    /\ UNCHANGED <<gwVars, keyCache, conn, tbVars>>

----------------------------------------------------------------------------
(* The bypass transport: customTransport.DialContext *)

\* index of the first atom of addr equal to old, 0 when there is none
IndexOf(addr, old) ==
    IF \E i \in 1..Len(addr) : addr[i] = old
    THEN CHOOSE i \in 1..Len(addr) :
            addr[i] = old /\ \A j \in 1..(i - 1) : addr[j] # old
    ELSE 0

\* strings.Contains(addr, old)
Contains(addr, old) == IndexOf(addr, old) # 0

\* strings.Replace(addr, old, new, 1)
ReplaceFirst(addr, old, new) ==
    LET i == IndexOf(addr, old) IN
    IF i = 0 THEN addr
    ELSE SubSeq(addr, 1, i - 1) \o <<new>> \o SubSeq(addr, i + 1, Len(addr))

\* variant: the whole address is replaced, the port is lost
DialContextDropPort(ip, addr) ==
    IF Contains(addr, CanonicalName) THEN <<ip>> ELSE addr

\* the address the overriding DialContext hands to dialer.DialContext
DialContext(ip, addr) ==
    IF Contains(addr, CanonicalName)
    THEN ReplaceFirst(addr, CanonicalName, ip)
    ELSE addr

\* the address the client's transport dials for addr
DialedAddr(client, ip, addr) ==
    IF client.DialContext = "bypass" THEN DialContext(ip, addr) ELSE addr

HostAtoms == {CanonicalName, "x.", ".cluster.local", "example.com"}
Ports     == {"443", "6443"}
Hosts     == UNION { [1..n -> HostAtoms] : n \in 1..MaxHostAtoms }

\* net.JoinHostPort(host, port) of a request URL
JoinHostPort(host, port) == host \o <<":", port>>

\* net.SplitHostPort(addr): the host and the port of an address
HostOf(addr) == SubSeq(addr, 1, Len(addr) - 2)
PortOf(addr) == addr[Len(addr)]

\* The client (discovery, key fetches) opens a TLS connection for a request to
\* https://host:port: net/http dials JoinHostPort(host, port) through the
\* transport's DialContext and verifies the certificate for the request's host.
Connect(host, port) ==
    /\ phase = "serving"
    /\ LET addr == JoinHostPort(host, port) IN
       conn' = <<[reqHost    |-> host,
                  addr       |-> addr,
                  dialed     |-> DialedAddr(httpClient, kubernetesServiceIP, addr),
                  ServerName |-> host]>>
    /\ UNCHANGED <<gwVars, keyCache, req, tbVars>>

----------------------------------------------------------------------------
(* Specifications *)

\* requests served one after another (slot 1)
Serve ==
    \/ \E h \in Headers : Arrive(1, h)
    \/ Unavailable(1)
    \/ CheckHeader(1)
    \/ CheckScheme(1)
    \/ VerifyToken(1)
    \/ ExtractClaims(1)
    \/ CheckSubject(1)
    \/ Attach(1)
    \/ Complete(1)

Next == Construct \/ Serve

Spec == Init /\ [][Next]_vars

NextDial == Construct \/ \E host \in Hosts, port \in Ports : Connect(host, port)

SpecDial == Init /\ [][NextDial]_vars

\* the collector validates the processor's configuration
ValidateConfig ==
    /\ validateCall = << >>
    /\ tbConfig' = Validate(tbConfig).cfg
    /\ validateCall' = <<[input |-> tbConfig, err |-> Validate(tbConfig).err]>>
    /\ UNCHANGED <<gwVars, keyCache, req, conn>>

\* a configuration is decoded, then validated; the middleware is not started
InitValidate ==
    /\ phase = "boot"
    /\ config = [ExpectedAudience |-> "svcA", AllowedSubjects |-> << >>]
    /\ environ = << >>
    /\ k8sConfig = [Host |-> << >>]
    /\ httpClient = HTTPClientOf("error")
    /\ dnsBypassEnabled = FALSE
    /\ kubernetesServiceIP = ""
    /\ provider = << >>
    /\ verifierConfig = << >>
    /\ handler = "none"
    /\ discoveries = 0
    /\ keyCache = {}
    /\ req = [r \in Slots |-> IdleRequest]
    /\ conn = << >>
    /\ tbConfig \in ConfigInputs
    /\ validateCall = << >>

NextValidate == ValidateConfig

SpecValidate == InitValidate /\ [][NextValidate]_vars

\* the closure returned by JWTAuthMiddleware, run from entry to return on a
\* request with header h while no other request runs: kind is the closure
\* ("unavailable" or "verifying"), cfg the verifier's configuration, iss the
\* discovered issuer, allowed config.AllowedSubjects
Closure(kind, cfg, iss, allowed, h) ==
    IF kind = "unavailable" THEN UnavailableBody(NewRequest(h))
    ELSE
    LET c1 == HeaderBody(NewRequest(h))
        c2 == IF c1.pc = "Rejected" THEN c1 ELSE SchemeBody(c1)
        c3 == IF c2.pc = "Rejected" THEN c2
              ELSE VerifyBody(c2, cfg[1], iss[1].issuer, InitialKeys)
        c4 == IF c3.pc = "Rejected" THEN c3 ELSE ClaimsBody(c3)
        c5 == IF c4.pc = "Rejected" THEN c4 ELSE SubjectBody(c4, allowed)
    IN  IF c5.pc = "Rejected" THEN c5 ELSE AttachBody(c5)

\* one step of the closure for the request in slot r
Step(r) ==
    \/ Unavailable(r)
    \/ CheckHeader(r)
    \/ CheckScheme(r)
    \/ VerifyToken(r)
    \/ ExtractClaims(r)
    \/ CheckSubject(r)
    \/ Attach(r)

\* headers of the requests that are served concurrently
ConcHeaders ==
    {<< >>, <<"Basic", "tAlice">>, <<"Bearer", "tAlice">>, <<"Bearer", "tBob">>,
     <<"Bearer", "tRotated">>, <<"Bearer", "tExpired">>}

\* a gateway as JWTAuthMiddleware leaves it, before the first request
InitServing ==
    /\ phase = "serving"
    /\ config \in [ExpectedAudience : {"svcA"},
                   AllowedSubjects  : {<< >>, <<"alice">>}]
    /\ environ \in {<< >>, <<"10.96.0.1">>}
    /\ k8sConfig = [Host |-> InClusterHost]
    /\ kubernetesServiceIP = Getenv(environ)
    /\ dnsBypassEnabled = (Getenv(environ) # "")
    /\ httpClient = ApplyBypass(HTTPClientOf("*http.Transport"), Getenv(environ) # "")
    /\ discoveries = 1
    /\ \/ /\ provider = <<[issuer |-> issuerURL]>>
          /\ verifierConfig = <<VerifierConfigFor(config, Getenv(environ) # "")>>
          /\ handler = "verifying"
          /\ keyCache = InitialKeys
       \/ /\ provider = << >>
          /\ verifierConfig = << >>
          /\ handler = "unavailable"
          /\ keyCache = {}
          /\ environ = << >>
          /\ config.AllowedSubjects = << >>
    /\ req = [r \in Slots |-> IdleRequest]
    /\ conn = << >>
    /\ tbConfig = ZeroConfig
    /\ validateCall = << >>

\* requests in all slots, their steps interleaved
NextConc ==
    \E r \in Slots :
      \/ \E h \in ConcHeaders : Arrive(r, h)
      \/ Unavailable(r)
      \/ CheckHeader(r)
      \/ CheckScheme(r)
      \/ VerifyToken(r)
      \/ ExtractClaims(r)
      \/ CheckSubject(r)
      \/ Attach(r)
      \/ Complete(r)

SpecConc == InitServing /\ [][NextConc]_vars

\* the closure of every request that entered it keeps running until it returns
SpecConcFair == SpecConc /\ \A r \in Slots : WF_vars(Step(r))

----------------------------------------------------------------------------
(* Vocabulary of the properties *)

\* the Rejected reason a response body stands for
ReasonOf(c) ==
    CASE c.error = "missing authorization header"        -> "missing-header"
      [] c.error = "invalid authorization header format" -> "bad-scheme"
      [] c.error = "invalid token"                       -> "invalid-token"
      [] c.error = "failed to extract token claims"      -> "claims-error"
      [] c.error = "subject claim missing"               -> "subject-missing"
      [] c.error = "subject validation failed"           -> "subject-denied"
      [] c.error = "JWT authentication not available"    -> "service-unavailable"
      [] OTHER                                           -> "none"

Rejected(c, reason, code) ==
    c.pc = "Rejected" /\ c.aborted /\ c.status = code /\ ReasonOf(c) = reason

\* the text of the header after its first space (the header has one)
AfterFirstSpace(h) == Tail(h)

\* the header is exactly "Bearer <token>": one space, a non-empty token
ExactBearerForm(h) == Len(h) = 2 /\ h[1] = "Bearer" /\ h[2] # ""

\* the steps a request's position lies behind
PastHeaderCheck == {"HeaderPresent", "SchemeValid", "TokenVerified", "ClaimsExtracted",
                    "SubjectChecked", "Authenticated", "Rejected"}

Verifying == phase = "serving" /\ handler = "verifying"

----------------------------------------------------------------------------
(* Properties *)

\* C1: the downstream handler runs and jwt_claims is set only for a request
\* whose header was non-empty, passed the scheme check, whose token Verify
\* accepted, whose claims decoded and (AllowedSubjects non-empty) whose sub is
\* a string equal to an entry; a rejected request has neither.
C1_AuthenticatedOnlyAfterAllChecks ==
    \A r \in Slots :
      LET c == req[r] IN
      /\ (c.nextCalled \/ c.keys # << >> \/ c.pc = "Authenticated") =>
           /\ Verifying
           /\ c.pc = "Authenticated" /\ c.nextCalled /\ ~c.aborted
           /\ GetHeader(c.header) # EmptyString
           /\ Len(c.header) >= 2 /\ c.header[1] = "Bearer"
           /\ c.verifyCalls = <<AfterFirstSpace(c.header)>>
           /\ Verify(verifierConfig[1], provider[1].issuer, keyCache,
                     AfterFirstSpace(c.header)).ok
           /\ c.decodeCalled /\ c.claims # << >> /\ c.keys = c.claims
           /\ Len(config.AllowedSubjects) > 0 =>
                /\ c.claims[1].sub.kind = "string"
                /\ \E i \in 1..Len(config.AllowedSubjects) :
                      config.AllowedSubjects[i] = c.claims[1].sub.val
      /\ c.pc = "Rejected" => (c.keys = << >> /\ ~c.nextCalled /\ c.aborted)

C1_Witness ==
    /\ Len(config.AllowedSubjects) > 0
    /\ req[1].pc = "Authenticated"
    /\ req[1].keys # << >>
    /\ req[1].nextCalled

\* C2: when building the provider failed, every request is rejected with 503
\* "JWT authentication not available", Verify is never called, no claims are
\* attached, the downstream handler never runs, and discovery is not repeated.
C2_UnavailableForEver ==
    (phase = "serving" /\ provider = << >>) =>
      /\ handler = "unavailable"
      /\ discoveries = 1
      /\ keyCache = {}
      /\ \A r \in Slots :
           LET c == req[r] IN
           /\ c.verifyCalls = << >> /\ ~c.decodeCalled /\ c.subjectCalls = << >>
           /\ c.keys = << >> /\ ~c.nextCalled
           /\ c.pc \in {"Idle", "Start", "Rejected"}
           /\ c.pc = "Rejected" =>
                /\ Rejected(c, "service-unavailable", 503)
                /\ c.error = "JWT authentication not available"

C2_Witness ==
    /\ provider = << >>
    /\ req[1].pc = "Rejected"
    /\ req[1].header = <<"Bearer", "tAlice">>
    /\ req[1].status = 503

\* C3: with the provider built, a request whose Authorization header is
\* absent or empty is rejected 401 missing-header and Verify is not called.
C3_MissingHeader ==
    Verifying =>
      \A r \in Slots :
        LET c == req[r] IN
        (c.pc \in PastHeaderCheck /\ c.header \in {<< >>, EmptyString}) =>
          /\ Rejected(c, "missing-header", 401)
          /\ c.verifyCalls = << >>

C3_Witness ==
    /\ Verifying
    /\ req[1].header = << >>
    /\ req[1].pc = "Rejected"

\* C4: with the provider built, a non-empty header that is not exactly
\* "Bearer <token>" never gets past verification, and its rejection is a 401.
C4_NotBearerFormIs401 ==
    Verifying =>
      \A r \in Slots :
        LET c == req[r] IN
        (c.pc # "Idle" /\ GetHeader(c.header) # EmptyString
           /\ ~ExactBearerForm(c.header)) =>
          /\ c.pc \in {"Start", "HeaderPresent", "SchemeValid", "Rejected"}
          /\ ~c.nextCalled /\ c.keys = << >>
          /\ c.pc = "Rejected" => (c.status = 401 /\ c.aborted)
          /\ ENABLED Serve

C4_Witness ==
    /\ Verifying
    /\ req[1].header = <<"bearer", "tAlice">>
    /\ req[1].pc = "Rejected"
    /\ req[1].status = 401

\* the causes of a Verify error the claim lists
ListedVerifyFailure(t) ==
    \/ ~(Clock.now < t.exp)
    \/ t.kid \notin RemoteKeys
    \/ config.ExpectedAudience \notin t.aud
    \/ (~dnsBypassEnabled /\ t.iss # issuerURL)

\* C5: when Verify returns an error for the presented token (expired, key id
\* unknown after the refresh, audience without ExpectedAudience, issuer
\* mismatch with the check enabled) the request is rejected 401 invalid-token
\* whatever AllowedSubjects is, and claims decoding and the subject check do
\* not run.
C5_VerifyErrorIsInvalidToken ==
    Verifying =>
      \A r \in Slots :
        LET c == req[r] IN
        /\ (c.verifyCalls # << >> /\ c.idToken = << >>) =>
             /\ Rejected(c, "invalid-token", 401)
             /\ ~c.decodeCalled /\ c.claims = << >> /\ c.subjectCalls = << >>
             /\ c.keys = << >> /\ ~c.nextCalled
        /\ (c.verifyCalls # << >> /\ Len(c.rawToken) = 1
              /\ c.rawToken[1] \in TokenWords
              /\ ListedVerifyFailure(JWTs[c.rawToken[1]])) =>
             c.idToken = << >>

C5_Witness ==
    /\ Verifying
    /\ Len(config.AllowedSubjects) > 0
    /\ req[1].header = <<"Bearer", "tExpired">>
    /\ req[1].verifyCalls # << >>
    /\ req[1].pc = "Rejected"

\* C6: with AllowedSubjects non-empty, a verified token whose string sub
\* equals no entry exactly is rejected 401 subject-denied, and one whose sub
\* equals an entry passes the subject check.
C6_SubjectExactMatch ==
    (Verifying /\ Len(config.AllowedSubjects) > 0) =>
      \A r \in Slots :
        LET c == req[r] IN
        (c.claims # << >> /\ c.pc # "ClaimsExtracted"
           /\ c.claims[1].sub.kind = "string") =>
          IF \E i \in 1..Len(config.AllowedSubjects) :
                config.AllowedSubjects[i] = c.claims[1].sub.val
          THEN c.pc \in {"SubjectChecked", "Authenticated"}
          ELSE Rejected(c, "subject-denied", 401)

C6_Witness ==
    /\ Verifying
    /\ config.AllowedSubjects = <<"carol", "alice">>
    /\ req[1].header = <<"Bearer", "tAliceUpper">>
    /\ Rejected(req[1], "subject-denied", 401)

\* C7: with AllowedSubjects non-empty, a verified token without a sub, or
\* with a sub that is not a string, is rejected 401 subject-missing and
\* validateSubject is not called.
C7_SubjectMissing ==
    (Verifying /\ Len(config.AllowedSubjects) > 0) =>
      \A r \in Slots :
        LET c == req[r] IN
        (c.claims # << >> /\ c.pc # "ClaimsExtracted"
           /\ c.claims[1].sub.kind # "string") =>
          /\ Rejected(c, "subject-missing", 401)
          /\ ReasonOf(c) # "subject-denied"
          /\ c.subjectCalls = << >>

C7_Witness ==
    /\ Verifying
    /\ Len(config.AllowedSubjects) > 0
    /\ req[1].header = <<"Bearer", "tNumSub">>
    /\ req[1].pc = "Rejected"
    /\ req[1].decodeCalled

\* C8: with AllowedSubjects empty, every request whose token Verify accepts
\* and whose claims decode is authenticated whatever its sub, and jwt_claims
\* is exactly the token's decoded claims, sub included.
C8_EmptyAllowListPassesThrough ==
    (Verifying /\ Len(config.AllowedSubjects) = 0) =>
      \A r \in Slots :
        LET c == req[r] IN
        c.claims # << >> =>
          /\ c.pc \in {"ClaimsExtracted", "SubjectChecked", "Authenticated"}
          /\ c.subjectCalls = << >>
          /\ ENABLED Serve
          /\ c.pc = "Authenticated" =>
               /\ c.nextCalled
               /\ c.keys = DecodeClaims(JWTs[c.header[2]]).claims
               /\ c.keys[1].sub = JWTs[c.header[2]].sub

C8_Witness ==
    /\ Verifying
    /\ Len(config.AllowedSubjects) = 0
    /\ req[1].header = <<"Bearer", "tNoSub">>
    /\ req[1].pc = "Authenticated"

\* C9: with bypass enabled, when the overriding dial function is called with
\* an address whose hostname is kubernetes.default.svc, the address dialed is
\* KUBERNETES_SERVICE_IP with the original port, while the TLS server name and
\* the issuer URL keep the canonical hostname.
C9_BypassDial ==
    (conn # << >> /\ dnsBypassEnabled /\ httpClient.DialContext = "bypass"
       /\ HostOf(conn[1].addr) = <<CanonicalName>>) =>
      /\ conn[1].dialed = <<Getenv(environ), ":", PortOf(conn[1].addr)>>
      /\ conn[1].ServerName = <<CanonicalName>>
      /\ conn[1].reqHost = <<CanonicalName>>
      /\ issuerURL = <<"https://", CanonicalName>>
      /\ provider # << >> => provider[1].issuer = issuerURL

C9_Witness ==
    /\ conn # << >>
    /\ httpClient.DialContext = "bypass"
    /\ conn[1].addr = <<CanonicalName, ":", "6443">>
    /\ conn[1].dialed = <<"10.96.0.1", ":", "6443">>

\* C10: the issuer check is on exactly when KUBERNETES_SERVICE_IP is empty or
\* unset; in both modes the verifier's audience is ExpectedAudience and the
\* signature is verified, so no accepted token has a wrong audience, a bad
\* signature or an unknown key.
C10_BypassRelaxesIssuerOnly ==
    Verifying =>
      /\ verifierConfig # << >>
      /\ (~verifierConfig[1].SkipIssuerCheck) <=> (environ \in {<< >>, EmptyString})
      /\ verifierConfig[1].ClientID = config.ExpectedAudience
      /\ ~verifierConfig[1].InsecureSkipSignatureCheck
      /\ ~verifierConfig[1].SkipClientIDCheck
      /\ \A r \in Slots :
           LET c == req[r] IN
           c.idToken # << >> =>
             /\ config.ExpectedAudience \in c.idToken[1].aud
             /\ c.idToken[1].sigOK
             /\ c.idToken[1].kid \in RemoteKeys

C10_Witness ==
    /\ Verifying
    /\ dnsBypassEnabled
    /\ verifierConfig[1].SkipIssuerCheck
    /\ req[1].header = <<"Bearer", "tWrongAud">>
    /\ Rejected(req[1], "invalid-token", 401)

\* C13: Validate on a config with a non-empty endpoint turns a CacheTTL of
\* zero into DefaultCacheTTL, which equals go-cache's NoExpiration, leaves
\* every other CacheTTL (NoExpiration included) as it is, and returns no error.
C13_ZeroTTLBecomesNoExpiration ==
    (validateCall # << >> /\ validateCall[1].input.Endpoint # ""
       /\ validateCall[1].input.MaxCacheSizeMB >= 0) =>
      /\ validateCall[1].err = NilError
      /\ IF validateCall[1].input.CacheTTL = 0
         THEN /\ tbConfig.CacheTTL = NoExpiration
              /\ tbConfig.CacheTTL = ConstsDefaultCacheTTL
              /\ tbConfig.CacheTTL = DefaultCacheTTL
         ELSE tbConfig.CacheTTL = validateCall[1].input.CacheTTL

\* C14: Validate returns an error containing "must be specified" exactly when
\* the endpoint is empty (MaxCacheSizeMB non-negative); then no field of the
\* config is changed; a non-empty endpoint with default cache settings
\* validates without error.
C14_EndpointMustBeSpecified ==
    validateCall # << >> =>
      LET in  == validateCall[1].input
          err == validateCall[1].err
      IN  /\ in.MaxCacheSizeMB >= 0 =>
               (Contains(err, "must be specified") <=> in.Endpoint = "")
          /\ in.Endpoint = "" => (err # NilError /\ tbConfig = in)
          /\ (in.Endpoint # "" /\ in.CacheTTL = 0 /\ in.MaxCacheSizeMB = 0) =>
               err = NilError

C14_Witness ==
    /\ validateCall # << >>
    /\ validateCall[1].input = [Endpoint |-> "", CacheTTL |-> 0, MaxCacheSizeMB |-> 0]
    /\ validateCall[1].err = <<"endpoint ", "must be specified">>

\* strings.Fields: the whitespace-separated parts of a header
Fields(h) == SelectSeq(h, LAMBDA w : w # "")

\* the positions of a request behind the scheme check
PastSchemeCheck == PastHeaderCheck \ {"HeaderPresent"}

\* C15 as stated: Verify is invoked only for a header of exactly two
\* whitespace-separated parts, the first being Bearer, and with exactly the
\* second part; any other header is rejected bad-scheme before Verify.
C15_VerifyOnlyForTwoParts ==
    Verifying =>
      \A r \in Slots :
        LET c == req[r]
            f == Fields(GetHeader(c.header))
        IN  /\ c.verifyCalls # << >> =>
                 /\ Len(f) = 2 /\ f[1] = "Bearer"
                 /\ c.verifyCalls = << <<f[2]>> >>
            /\ (c.pc \in PastSchemeCheck /\ GetHeader(c.header) # EmptyString
                  /\ ~(Len(f) = 2 /\ f[1] = "Bearer")) =>
                 /\ Rejected(c, "bad-scheme", 401)
                 /\ c.verifyCalls = << >>

\* C15, amended: the header is split at its first space only.  Verify is
\* invoked exactly for the headers that have a space and whose text before
\* the first space is Bearer, with everything after that space; every other
\* non-empty header is rejected bad-scheme before Verify.
C15_VerifyAfterFirstSpace ==
    Verifying =>
      \A r \in Slots :
        LET c == req[r]
            h == c.header
        IN  /\ c.verifyCalls # << >> =>
                 /\ Len(h) >= 2 /\ h[1] = "Bearer"
                 /\ c.verifyCalls = <<AfterFirstSpace(h)>>
            /\ (c.pc \in PastSchemeCheck /\ GetHeader(h) # EmptyString) =>
                 IF Len(h) >= 2 /\ h[1] = "Bearer"
                 THEN /\ c.rawToken = AfterFirstSpace(h)
                      /\ ReasonOf(c) # "bad-scheme"
                      /\ c.pc # "SchemeValid" => c.verifyCalls = <<AfterFirstSpace(h)>>
                 ELSE /\ Rejected(c, "bad-scheme", 401)
                      /\ c.verifyCalls = << >>

C15_Witness ==
    /\ Verifying
    /\ req[1].header = <<"Bearer", "tAlice", "tAlice">>
    /\ req[1].verifyCalls = << <<"tAlice", "tAlice">> >>
    /\ req[1].pc = "Rejected"

\* the handler has returned for the request
Ended(c) == c.pc \in {"Authenticated", "Rejected"}

\* C11: with requests served concurrently, under every interleaving of their
\* steps, each request ends as it would alone on the same gateway; what it
\* hands to Verify, its token, its claims and jwt_claims come from its own
\* header; and its next step never waits for another request.
C11_ConcurrentRequestsIsolated ==
    \A r \in Slots :
      LET c == req[r] IN
      /\ Ended(c) =>
           c = Closure(handler, verifierConfig, provider, config.AllowedSubjects,
                       c.header)
      /\ c.verifyCalls # << >> => c.verifyCalls = <<AfterFirstSpace(c.header)>>
      /\ c.idToken # << >> => c.idToken = <<JWTs[c.header[2]]>>
      /\ c.claims # << >> => c.claims = DecodeClaims(JWTs[c.header[2]]).claims
      /\ c.pc = "Authenticated" =>
           (c.keys # << >> /\ c.keys = DecodeClaims(JWTs[c.header[2]]).claims)
      /\ c.pc # "Authenticated" => c.keys = << >>
      /\ c.pc \notin {"Idle", "Authenticated", "Rejected"} => ENABLED Step(r)

C11_Witness ==
    /\ handler = "verifying"
    /\ req[1].header = <<"Bearer", "tRotated">>
    /\ req[1].pc = "Authenticated"
    /\ req[2].header = <<"Bearer", "tExpired">>
    /\ req[2].pc = "Rejected"

\* the moves of a request's position the pipeline order allows
PipelineMoves ==
    {<<"Idle", "Start">>, <<"Start", "HeaderPresent">>,
     <<"HeaderPresent", "SchemeValid">>, <<"SchemeValid", "TokenVerified">>,
     <<"TokenVerified", "ClaimsExtracted">>, <<"ClaimsExtracted", "SubjectChecked">>,
     <<"SubjectChecked", "Authenticated">>}
    \cup { <<p, "Rejected">> : p \in {"Start", "HeaderPresent", "SchemeValid",
                                       "TokenVerified", "ClaimsExtracted"} }
    \cup { <<p, "Idle">> : p \in {"Authenticated", "Rejected"} }

\* what one step does to one request
OrderedStep(c, d) ==
    /\ d # c => <<c.pc, d.pc>> \in PipelineMoves
    /\ Ended(c) => (d = c \/ d = IdleRequest)
    /\ (d.pc = "Rejected") <=> d.aborted
    /\ (d.pc = "Authenticated") <=> d.nextCalled
    /\ ~(d.aborted /\ d.nextCalled)
    /\ d.pc = "Rejected" => (d.status \in {401, 503} /\ ReasonOf(d) # "none")

\* C17: every request ends in exactly one outcome, Authenticated or Rejected,
\* after moving through the steps in their order; once rejected, no further
\* step runs for it and its outcome does not change.
C17_OneOutcomeRejectedAbsorbing ==
    /\ [][\A r \in Slots : OrderedStep(req[r], req'[r])]_vars
    /\ \A r \in Slots : (req[r].pc = "Start") ~> Ended(req[r])

C17_Witness ==
    /\ req[1].header = <<"Bearer", "tBob">>
    /\ config.AllowedSubjects = <<"alice">>
    /\ Rejected(req[1], "subject-denied", 401)
    /\ req[1].decodeCalled

\* C16: discovery runs exactly once, at construction and before any request
\* is processed; no request triggers another one, and the gateway's mode,
\* fixed by that discovery, never changes.
C16_DiscoveryOnceModeFixed ==
    [][ /\ phase = "boot" =>
             (discoveries = 0 /\ handler = "none"
                /\ \A r \in Slots : req[r].pc = "Idle")
        /\ (\E r \in Slots : req'[r].pc # "Idle") => phase = "serving"
        /\ phase' = "serving" =>
             (discoveries' = 1 /\ handler' \in {"verifying", "unavailable"})
        /\ phase = "serving" =>
             /\ phase' = "serving"
             /\ discoveries' = discoveries
             /\ handler' = handler
             /\ provider' = provider
             /\ verifierConfig' = verifierConfig ]_vars

C16_Witness ==
    /\ handler = "unavailable"
    /\ discoveries = 1
    /\ req[1].pc = "Rejected"
    /\ req[1].status = 503

\* C18: a failure to load the in-cluster configuration (or to build the HTTP
\* client from it) is not fatal: the fallback host is used, discovery still
\* runs, and the gateway is unavailable only when the provider was not built.
C18_ClusterConfigFailureNotFatal ==
    phase = "serving" =>
      /\ k8sConfig.Host \in {InClusterHost, <<"https://", "kubernetes.default.svc">>}
      /\ discoveries = 1
      /\ handler \in {"verifying", "unavailable"}
      /\ (handler = "unavailable") <=> (provider = << >>)
      /\ (handler = "verifying") <=> (verifierConfig # << >>)

C18_Witness ==
    /\ k8sConfig.Host = <<"https://", "kubernetes.default.svc">>
    /\ httpClient.from = "http.DefaultClient"
    /\ handler = "verifying"
    /\ req[1].pc = "Authenticated"

\* C19: the dial function leaves the address as it is whenever bypass is off
\* or the address's hostname is not kubernetes.default.svc (a hostname that
\* only contains the name included), and never alters the port.
C19_OtherHostsUntouched ==
    conn # << >> =>
      /\ (~dnsBypassEnabled \/ HostOf(conn[1].addr) # <<CanonicalName>>) =>
           conn[1].dialed = conn[1].addr
      /\ PortOf(conn[1].dialed) = PortOf(conn[1].addr)

\* C20: in every gateway built with the issuer check relaxed, the dial-time
\* substitution is installed on the HTTP client used for discovery and key
\* fetching.
C20_RelaxedIssuerImpliesBypassInstalled ==
    (phase = "serving" /\ verifierConfig # << >>
       /\ verifierConfig[1].SkipIssuerCheck) =>
      httpClient.DialContext = "bypass"

====
